---- MODULE Spec2Model ----
(***************************************************************************)
(* Model of generate_fake_data.py: the customer and order batch builders   *)
(* (gerar_lote_cadastros, gerar_lote_pedidos), the loader                   *)
(* (inserir_em_lote) and the orchestrator (main) with its try/finally.      *)
(*                                                                          *)
(* Three specifications share the definitions below:                        *)
(*   Spec      one run of main, from the state left by module import;       *)
(*   SpecLote  one call of a batch builder for every requested size;        *)
(*   SpecDet   two runs of the record generators under the same seed.       *)
(*                                                                          *)
(* Money is in centavos, the factor of random.uniform(0.05, 0.2) in         *)
(* thousandths.  Records keep the columns the constraints and the checked   *)
(* properties read (id, cpf, email; id_pedido, cpf, valor_pedido,           *)
(* valor_desconto, cupom); the remaining columns are free text that no      *)
(* statement of the program inspects.                                       *)
(***************************************************************************)
EXTENDS Integers, Sequences, FiniteSets, TLC

VARIABLES
    pc,            \* position of the running code
    chamador,      \* "main" or "lote": who called the batch builder
    erro,          \* the exception raised so far ("nenhum" if none)
    propagado,     \* the exception that left main ("nenhum" if none)
    con_aberta,    \* the DuckDB connection `con` is open
    arquivos,      \* files present under SEEDS_PATH
    tabelas,       \* the two tables exist in the database
    cadastros,     \* rows of table cadastros, in insertion order
    pedidos,       \* rows of table pedidos, in insertion order
    i,             \* loop variable of the two loops of main
    tamanho_lote,  \* argument of the running batch builder
    chunk_start,   \* outer loop variable of the batch builder
    k,             \* inner loop variable of the batch builder
    chunk_data,    \* records of the chunk being generated
    chunks,        \* the chunks produced so far
    df,            \* DataFrame returned by the last batch builder call
    cpfs,          \* list read back from cadastros (argument of gerar_lote_pedidos)
    relatorio,     \* <<>> or <<r>>: what the last inserir_em_lote printed, and what it added
    estatisticas,  \* <<>> or <<r>>: the statistics printed
    entropia,      \* OS entropy of this process (feeds uuid.uuid4)
    n_uuid,        \* number of uuid4() calls made so far
    gerados,       \* history: records built by the running batch builder call
    falhas,        \* history: record generations that threw in the running call
    sorteados,     \* history: tax ids drawn during the customer stage of main
    execucoes,     \* SpecDet: state of the two runs
    fluxo          \* SpecDet: the stream random.seed(42) determines

vars == <<pc, chamador, erro, propagado, con_aberta, arquivos, tabelas,
          cadastros, pedidos, i, tamanho_lote, chunk_start, k, chunk_data,
          chunks, df, cpfs, relatorio, estatisticas, entropia, n_uuid,
          gerados, falhas, sorteados, execucoes, fluxo>>

(***************************************************************************)
(* Bounds.  The configured sizes of the program (10,000-record chunks,      *)
(* 10,000 customers in batches of 5,000, 50,000 orders in batches of 5,000) *)
(* are scaled down; the relations between them that the code paths depend   *)
(* on are kept (several batches per stage, a last batch shorter than the    *)
(* others, requests larger than a chunk in SpecLote).                       *)
(***************************************************************************)
chunk_size == 2
total_cadastros == 3
lote_cadastros == 2
total_pedidos == 2
lote_pedidos == 1
MaxLote == 3
MaxDigito == 2
MaxEntropia == 1
CadastrosDet == 2
PedidosDet == 1

None == <<>>

Min(a, b) == IF a < b THEN a ELSE b

Range(s) == {s[j] : j \in 1..Len(s)}

\* ---------------------------------------------------------------- paths
SEEDS_PATH == "./seeds/"
DB_PATH == "./seeds/data.duckdb"
LOAD_SQL == "./seeds/load.sql"
SCHEMA_SQL == "./seeds/schema.sql"
CSVS == {"./seeds/cadastros.csv", "./seeds/pedidos.csv"}

\* ------------------------------------------------------- record generator
Digitos == <<"0", "1", "2", "3", "4", "5", "6", "7", "8", "9">>

CPF_TEXT == <<"#", "#", "#", ".", "#", "#", "#", ".", "#", "#", "#", "-", "#", "#">>

\* number of '#' among the first n characters of text
RECURSIVE NumCardinais(_, _)
NumCardinais(text, n) ==
    IF n = 0 THEN 0
    ELSE NumCardinais(text, n - 1) + (IF text[n] = "#" THEN 1 ELSE 0)

\* fake.bothify(text): every '#' replaced by a drawn digit, the rest kept
bothify(text, ds) ==
    [j \in 1..Len(text) |->
        IF text[j] = "#" THEN Digitos[ds[NumCardinais(text, j)] + 1] ELSE text[j]]

\* the digit draws considered: the last digit varies
Sorteios ==
    {[j \in 1..NumCardinais(CPF_TEXT, Len(CPF_TEXT)) |->
         IF j = NumCardinais(CPF_TEXT, Len(CPF_TEXT)) THEN d ELSE 0] : d \in 0..MaxDigito}

CPFs == {bothify(CPF_TEXT, ds) : ds \in Sorteios}

\* str.replace(ch, '')
replace(s, ch) == SelectSeq(s, LAMBDA c : c # ch)

email(cpf) == replace(replace(cpf, "."), "-") \o <<"@exemplo.com.br">>

\* uuid.uuid4(): drawn from OS entropy, never from the seeded generators;
\* within one process no value comes twice
uuid4(e, n) == <<e, n>>

registro_cadastro(id, cpf) == [id |-> id, cpf |-> cpf, email |-> email(cpf)]

\* round(x, 2) of valor * fator, valor in centavos and fator in thousandths
round2(valor, fator) == (2 * valor * fator + 1000) \div 2000

valor_desconto_m(valor_total, tem_desconto, fator) == round2(valor_total, fator)

valor_desconto(valor_total, tem_desconto, fator) ==
    IF tem_desconto THEN round2(valor_total, fator) ELSE 0

\* str(uuid)[:8].upper(): a prefix of the identifier, so distinct
\* identifiers can give the same code
prefixo8(id) == <<id[1], id[2] % 2>>

cupom(tem_desconto, id) == IF tem_desconto THEN <<"CUPOM", prefixo8(id)>> ELSE None

registro_pedido(id, cpf, valor_total, tem_desconto, fator, id_cupom) ==
    [id_pedido |-> id, cpf |-> cpf, valor_pedido |-> valor_total,
     valor_desconto |-> valor_desconto(valor_total, tem_desconto, fator),
     cupom |-> cupom(tem_desconto, id_cupom)]

\* random.uniform(50, 2000): its lower end, where the discount is smallest
Valores == {5000}

\* random.uniform(0.05, 0.2): its two ends
Fatores == {50, 200}

\* random.choice(cpfs)
escolhas_m(lista) == CPFs

escolhas(lista) == Range(lista)

\* ----------------------------------------------------------- batch builder
chunk_end(inicio, tamanho) == Min(inicio + chunk_size, tamanho)

drop_duplicates_m(s) == s

\* DataFrame.drop_duplicates(subset=['cpf']): the first row of each cpf stays
RECURSIVE drop_duplicates(_)
drop_duplicates(s) ==
    IF s = <<>> THEN <<>>
    ELSE LET ini == drop_duplicates(SubSeq(s, 1, Len(s) - 1))
             ult == s[Len(s)]
         IN IF \E j \in 1..Len(ini) : ini[j].cpf = ult.cpf THEN ini ELSE Append(ini, ult)

concat_m(cs) == IF cs = <<>> THEN <<>> ELSE cs[Len(cs)]

\* pd.concat(chunks, ignore_index=True)
RECURSIVE concat(_)
concat(cs) == IF cs = <<>> THEN <<>> ELSE concat(SubSeq(cs, 1, Len(cs) - 1)) \o cs[Len(cs)]

\* DataFrame.head(n)
head(s, n) == SubSeq(s, 1, Min(n, Len(s)))

\* ------------------------------------------------------------------ loader
\* the constraints INSERT OR IGNORE skips on: PRIMARY KEY and UNIQUE columns
conflita_m(tabela, rel, row) ==
    IF tabela = "cadastros"
    THEN \E j \in 1..Len(rel) : rel[j].id = row.id
    ELSE \E j \in 1..Len(rel) : rel[j].id_pedido = row.id_pedido

conflita(tabela, rel, row) ==
    IF tabela = "cadastros"
    THEN \E j \in 1..Len(rel) :
            rel[j].id = row.id \/ rel[j].cpf = row.cpf \/ rel[j].email = row.email
    ELSE \E j \in 1..Len(rel) : rel[j].id_pedido = row.id_pedido

\* INSERT OR IGNORE INTO tabela SELECT * FROM temp_df
RECURSIVE insert_or_ignore(_, _, _)
insert_or_ignore(tabela, rel, d) ==
    IF d = <<>> THEN rel
    ELSE LET antes == insert_or_ignore(tabela, rel, SubSeq(d, 1, Len(d) - 1))
             row == d[Len(d)]
         IN IF conflita(tabela, antes, row) THEN antes ELSE Append(antes, row)

\* FOREIGN KEY (cpf) REFERENCES cadastros(cpf)
viola_fk(cad, ped) ==
    \E j \in 1..Len(ped) : \A n \in 1..Len(cad) : cad[n].cpf # ped[j].cpf

\* --------------------------------------------------------- unchanged groups
banco == <<tabelas, cadastros, pedidos>>
disco == <<con_aberta, arquivos>>
construtor == <<tamanho_lote, chunk_start, k, chunk_data, chunks, gerados, falhas>>
duas == <<execucoes, fluxo>>

\* entry of a batch builder: its locals
Chamar(tamanho) ==
    /\ tamanho_lote' = tamanho
    /\ chunk_start' = 0
    /\ k' = 0
    /\ chunk_data' = <<>>
    /\ chunks' = <<>>
    /\ gerados' = <<>>
    /\ falhas' = 0

\* ---------------------------------------------------- gerar_lote_cadastros
\* one iteration of the inner loop; nothing catches what a field generator throws
GerarCadastro ==
    /\ pc = "gerar_cad"
    /\ chunk_start < tamanho_lote
    /\ k < chunk_end(chunk_start, tamanho_lote)
    /\ \E cpf \in CPFs, lanca \in BOOLEAN :
          IF lanca
          THEN /\ falhas' = falhas + 1
               /\ erro' = "geracao"
               /\ pc' = IF chamador = "main" THEN "finally" ELSE "excecao"
               /\ UNCHANGED <<k, chunk_data, gerados, n_uuid, sorteados>>
          ELSE LET reg == registro_cadastro(uuid4(entropia, n_uuid), cpf)
               IN /\ chunk_data' = Append(chunk_data, reg)
                  /\ gerados' = Append(gerados, reg)
                  /\ sorteados' = Append(sorteados, cpf)
                  /\ n_uuid' = n_uuid + 1
                  /\ k' = k + 1
                  /\ UNCHANGED <<pc, erro, falhas>>
    /\ UNCHANGED <<chamador, propagado, disco, banco, i, tamanho_lote, chunk_start,
                   chunks, df, cpfs, relatorio, estatisticas, entropia, duas>>

\* end of one chunk: DataFrame, drop_duplicates, append
FecharChunkCad ==
    /\ pc = "gerar_cad"
    /\ chunk_start < tamanho_lote
    /\ k = chunk_end(chunk_start, tamanho_lote)
    /\ chunks' = Append(chunks, drop_duplicates(chunk_data))
    /\ chunk_data' = <<>>
    /\ chunk_start' = chunk_start + chunk_size
    /\ k' = chunk_start + chunk_size
    /\ UNCHANGED <<pc, chamador, erro, propagado, disco, banco, i, tamanho_lote, df,
                   cpfs, relatorio, estatisticas, entropia, n_uuid, gerados, falhas,
                   sorteados, duas>>

\* after the outer loop: concat, drop_duplicates, head
RetornarCad ==
    /\ pc = "gerar_cad"
    /\ chunk_start >= tamanho_lote
    /\ df' = IF chunks # <<>>
             THEN head(drop_duplicates(concat(chunks)), tamanho_lote)
             ELSE <<>>
    /\ pc' = IF chamador = "main" THEN "inserir_cad" ELSE "retornou_cad"
    /\ UNCHANGED <<chamador, erro, propagado, disco, banco, i, construtor, cpfs,
                   relatorio, estatisticas, entropia, n_uuid, sorteados, duas>>

\* ------------------------------------------------------ gerar_lote_pedidos
\* one iteration of the inner loop; the except clause skips a record that threw
\* (random.choice of an empty list throws IndexError)
GerarPedido ==
    /\ pc = "gerar_ped"
    /\ chunk_start < tamanho_lote
    /\ k < chunk_end(chunk_start, tamanho_lote)
    /\ \E lanca \in BOOLEAN :
          IF lanca \/ cpfs = <<>>
          THEN /\ falhas' = falhas + 1
               /\ UNCHANGED <<chunk_data, gerados, n_uuid>>
          ELSE \E cpf \in escolhas(cpfs), valor_total \in Valores,
                  tem_desconto \in BOOLEAN, fator \in Fatores :
                  LET n_id == IF tem_desconto THEN n_uuid + 1 ELSE n_uuid
                      reg == registro_pedido(uuid4(entropia, n_id), cpf, valor_total,
                                             tem_desconto, fator, uuid4(entropia, n_uuid))
                  IN /\ chunk_data' = Append(chunk_data, reg)
                     /\ gerados' = Append(gerados, reg)
                     /\ n_uuid' = n_id + 1
                     /\ UNCHANGED falhas
    /\ k' = k + 1
    /\ UNCHANGED <<pc, chamador, erro, propagado, disco, banco, i, tamanho_lote,
                   chunk_start, chunks, df, cpfs, relatorio, estatisticas, entropia,
                   sorteados, duas>>

\* end of one chunk: an empty chunk is skipped, the others are appended
FecharChunkPed ==
    /\ pc = "gerar_ped"
    /\ chunk_start < tamanho_lote
    /\ k = chunk_end(chunk_start, tamanho_lote)
    /\ chunks' = IF chunk_data = <<>> THEN chunks ELSE Append(chunks, chunk_data)
    /\ chunk_data' = <<>>
    /\ chunk_start' = chunk_start + chunk_size
    /\ k' = chunk_start + chunk_size
    /\ UNCHANGED <<pc, chamador, erro, propagado, disco, banco, i, tamanho_lote, df,
                   cpfs, relatorio, estatisticas, entropia, n_uuid, gerados, falhas,
                   sorteados, duas>>

RetornarPed ==
    /\ pc = "gerar_ped"
    /\ chunk_start >= tamanho_lote
    /\ df' = IF chunks # <<>> THEN concat(chunks) ELSE <<>>
    /\ pc' = IF chamador = "main" THEN "inserir_ped" ELSE "retornou_ped"
    /\ UNCHANGED <<chamador, erro, propagado, disco, banco, i, construtor, cpfs,
                   relatorio, estatisticas, entropia, n_uuid, sorteados, duas>>

\* --------------------------------------------------------- inserir_em_lote
\* the loader called on df for `tabela`; on success main goes on at `proximo`
\* with its loop variable advanced by `passo`
inserir_em_lote_m(tabela, proximo, passo) ==
    IF df = <<>>
    THEN /\ pc' = proximo
         /\ i' = i + passo
         /\ UNCHANGED <<erro, banco, relatorio>>
    ELSE \E falha \in BOOLEAN :
            IF falha \/ (tabela = "pedidos" /\ viola_fk(cadastros, df))
            THEN /\ erro' = IF tabela = "cadastros" THEN "insercao_cadastros"
                                                    ELSE "insercao_pedidos"
                 /\ pc' = proximo
                 /\ i' = i + passo
                 /\ UNCHANGED <<banco, relatorio>>
            ELSE LET rel == IF tabela = "cadastros" THEN cadastros ELSE pedidos
                     novo == insert_or_ignore(tabela, rel, df)
                 IN /\ cadastros' = IF tabela = "cadastros" THEN novo ELSE cadastros
                    /\ pedidos' = IF tabela = "pedidos" THEN novo ELSE pedidos
                    /\ relatorio' = <<[tabela |-> tabela, inseridos |-> Len(df),
                                       adicionados |-> Len(novo) - Len(rel)]>>
                    /\ pc' = proximo
                    /\ i' = i + passo
                    /\ UNCHANGED <<erro, tabelas>>

inserir_em_lote(tabela, proximo, passo) ==
    IF df = <<>>
    THEN /\ pc' = proximo
         /\ i' = i + passo
         /\ UNCHANGED <<erro, banco, relatorio>>
    ELSE \E falha \in BOOLEAN :
            IF falha \/ (tabela = "pedidos" /\ viola_fk(cadastros, df))
            THEN /\ erro' = IF tabela = "cadastros" THEN "insercao_cadastros"
                                                    ELSE "insercao_pedidos"
                 /\ pc' = "finally"
                 /\ UNCHANGED <<i, banco, relatorio>>
            ELSE LET rel == IF tabela = "cadastros" THEN cadastros ELSE pedidos
                     novo == insert_or_ignore(tabela, rel, df)
                 IN /\ cadastros' = IF tabela = "cadastros" THEN novo ELSE cadastros
                    /\ pedidos' = IF tabela = "pedidos" THEN novo ELSE pedidos
                    /\ relatorio' = <<[tabela |-> tabela, inseridos |-> Len(df),
                                       adicionados |-> Len(novo) - Len(rel)]>>
                    /\ pc' = proximo
                    /\ i' = i + passo
                    /\ UNCHANGED <<erro, tabelas>>

\* --------------------------------------------------------------------- main
\* a statement run on the connection either fails (the exception leaves the
\* try block) or takes effect
CriarTabelas ==
    /\ pc = "criar_tabelas"
    /\ \E falha \in BOOLEAN :
          IF falha
          THEN erro' = "banco" /\ pc' = "finally" /\ UNCHANGED tabelas
          ELSE tabelas' = TRUE /\ pc' = "delete_pedidos" /\ UNCHANGED erro
    /\ UNCHANGED <<chamador, propagado, disco, cadastros, pedidos, i, construtor, df,
                   cpfs, relatorio, estatisticas, entropia, n_uuid, sorteados, duas>>

DeletePedidos ==
    /\ pc = "delete_pedidos"
    /\ \E falha \in BOOLEAN :
          IF falha
          THEN erro' = "banco" /\ pc' = "finally" /\ UNCHANGED pedidos
          ELSE pedidos' = <<>> /\ pc' = "delete_cadastros" /\ UNCHANGED erro
    /\ UNCHANGED <<chamador, propagado, disco, tabelas, cadastros, i, construtor, df,
                   cpfs, relatorio, estatisticas, entropia, n_uuid, sorteados, duas>>

\* the foreign key rejects the deletion of a customer an order refers to
DeleteCadastros ==
    /\ pc = "delete_cadastros"
    /\ \E falha \in BOOLEAN :
          IF falha \/ viola_fk(<<>>, pedidos)
          THEN erro' = "banco" /\ pc' = "finally" /\ UNCHANGED <<cadastros, i>>
          ELSE cadastros' = <<>> /\ pc' = "loop_cadastros" /\ i' = 0 /\ UNCHANGED erro
    /\ UNCHANGED <<chamador, propagado, disco, tabelas, pedidos, construtor, df,
                   cpfs, relatorio, estatisticas, entropia, n_uuid, sorteados, duas>>

\* head of `for i in range(0, total_cadastros, lote_cadastros)`
LoopCadastros ==
    /\ pc = "loop_cadastros"
    /\ IF i < total_cadastros
       THEN /\ Chamar(Min(lote_cadastros, total_cadastros - i))
            /\ pc' = "gerar_cad"
       ELSE /\ pc' = "select_cpfs"
            /\ UNCHANGED construtor
    /\ UNCHANGED <<chamador, erro, propagado, disco, banco, i, df, cpfs, relatorio,
                   estatisticas, entropia, n_uuid, sorteados, duas>>

InserirCadastros ==
    /\ pc = "inserir_cad"
    /\ inserir_em_lote("cadastros", "loop_cadastros", lote_cadastros)
    /\ UNCHANGED <<chamador, propagado, disco, construtor, df, cpfs, estatisticas,
                   entropia, n_uuid, sorteados, duas>>

SelectCpfs ==
    /\ pc = "select_cpfs"
    /\ \E falha \in BOOLEAN :
          IF falha
          THEN erro' = "banco" /\ pc' = "finally" /\ UNCHANGED <<cpfs, i>>
          ELSE /\ cpfs' = [j \in 1..Len(cadastros) |-> cadastros[j].cpf]
               /\ i' = 0
               /\ pc' = "loop_pedidos"
               /\ UNCHANGED erro
    /\ UNCHANGED <<chamador, propagado, disco, banco, construtor, df, relatorio,
                   estatisticas, entropia, n_uuid, sorteados, duas>>

\* head of `for i in range(0, total_pedidos, lote_pedidos)`
LoopPedidos ==
    /\ pc = "loop_pedidos"
    /\ IF i < total_pedidos
       THEN /\ Chamar(Min(lote_pedidos, total_pedidos - i))
            /\ pc' = "gerar_ped"
       ELSE /\ pc' = "estatisticas"
            /\ UNCHANGED construtor
    /\ UNCHANGED <<chamador, erro, propagado, disco, banco, i, df, cpfs, relatorio,
                   estatisticas, entropia, n_uuid, sorteados, duas>>

InserirPedidos ==
    /\ pc = "inserir_ped"
    /\ inserir_em_lote("pedidos", "loop_pedidos", lote_pedidos)
    /\ UNCHANGED <<chamador, propagado, disco, construtor, df, cpfs, estatisticas,
                   entropia, n_uuid, sorteados, duas>>

\* the average is kept as the fraction total_ped / total_cad
Estatisticas ==
    /\ pc = "estatisticas"
    /\ \E falha \in BOOLEAN :
          IF falha
          THEN erro' = "banco" /\ pc' = "finally" /\ UNCHANGED estatisticas
          ELSE /\ estatisticas' =
                     <<[total_cad |-> Len(cadastros), total_ped |-> Len(pedidos),
                        media_pedidos |-> IF Len(cadastros) > 0
                                          THEN <<Len(pedidos), Len(cadastros)>>
                                          ELSE <<0, 1>>]>>
               /\ pc' = "exportar"
               /\ UNCHANGED erro
    /\ UNCHANGED <<chamador, propagado, disco, banco, i, construtor, df, cpfs,
                   relatorio, entropia, n_uuid, sorteados, duas>>

\* EXPORT DATABASE writes one CSV per table plus schema.sql and load.sql
Exportar ==
    /\ pc = "exportar"
    /\ \E falha \in BOOLEAN :
          IF falha
          THEN erro' = "banco" /\ UNCHANGED arquivos
          ELSE arquivos' = arquivos \cup CSVS \cup {LOAD_SQL, SCHEMA_SQL} /\ UNCHANGED erro
    /\ pc' = "finally"
    /\ UNCHANGED <<chamador, propagado, con_aberta, banco, i, construtor, df, cpfs,
                   relatorio, estatisticas, entropia, n_uuid, sorteados, duas>>

Finally_m ==
    /\ pc = "finally"
    /\ IF erro = "nenhum"
       THEN /\ con_aberta' = FALSE
            /\ arquivos' = arquivos \ {DB_PATH, LOAD_SQL, SCHEMA_SQL}
            /\ tabelas' = FALSE
            /\ cadastros' = <<>>
            /\ pedidos' = <<>>
       ELSE UNCHANGED <<disco, banco>>
    /\ propagado' = erro
    /\ pc' = "fim"
    /\ UNCHANGED <<chamador, erro, i, construtor, df, cpfs, relatorio, estatisticas,
                   entropia, n_uuid, sorteados, duas>>

\* the finally block, then either the exception leaves main or the elapsed
\* time is printed; the tables live in the file that is removed
Finally ==
    /\ pc = "finally"
    /\ con_aberta' = FALSE
    /\ arquivos' = arquivos \ {DB_PATH, LOAD_SQL, SCHEMA_SQL}
    /\ tabelas' = FALSE
    /\ cadastros' = <<>>
    /\ pedidos' = <<>>
    /\ propagado' = erro
    /\ pc' = "fim"
    /\ UNCHANGED <<chamador, erro, i, construtor, df, cpfs, relatorio, estatisticas,
                   entropia, n_uuid, sorteados, duas>>

\* ------------------------------------------------------------ initial states
\* rows a killed earlier run left in the file (its identifiers come from
\* another process)
cadastro_anterior == registro_cadastro(<<-1, 0>>, CHOOSE c \in CPFs : TRUE)

pedido_anterior ==
    registro_pedido(<<-1, 1>>, cadastro_anterior.cpf, 5000, FALSE, 50, <<-1, 2>>)

BancosAnteriores ==
    {[tabelas |-> FALSE, cadastros |-> <<>>, pedidos |-> <<>>],
     [tabelas |-> TRUE, cadastros |-> <<cadastro_anterior>>,
      pedidos |-> <<pedido_anterior>>]}

Ocioso ==
    /\ i = 0
    /\ chunk_start = 0
    /\ k = 0
    /\ chunk_data = <<>>
    /\ chunks = <<>>
    /\ df = <<>>
    /\ relatorio = <<>>
    /\ estatisticas = <<>>
    /\ gerados = <<>>
    /\ falhas = 0
    /\ sorteados = <<>>
    /\ erro = "nenhum"
    /\ propagado = "nenhum"
    /\ n_uuid = 0

\* after the module-level statements: the connection is open, its file exists.
\* Identifiers are only compared with each other, so one value of the
\* entropy stands for all.
Init ==
    /\ pc = "criar_tabelas"
    /\ chamador = "main"
    /\ con_aberta = TRUE
    /\ arquivos = {DB_PATH}
    /\ \E b \in BancosAnteriores :
          tabelas = b.tabelas /\ cadastros = b.cadastros /\ pedidos = b.pedidos
    /\ cpfs = <<>>
    /\ tamanho_lote = 0
    /\ entropia = 0
    /\ Ocioso
    /\ execucoes = <<>>
    /\ fluxo = <<>>

Next ==
    \/ CriarTabelas
    \/ DeletePedidos
    \/ DeleteCadastros
    \/ LoopCadastros
    \/ GerarCadastro
    \/ FecharChunkCad
    \/ RetornarCad
    \/ InserirCadastros
    \/ SelectCpfs
    \/ LoopPedidos
    \/ GerarPedido
    \/ FecharChunkPed
    \/ RetornarPed
    \/ InserirPedidos
    \/ Estatisticas
    \/ Exportar
    \/ Finally

Spec == Init /\ [][Next]_vars

\* ------------------------------------------- one call of a batch builder
\* lists SELECT cpf FROM cadastros can return: the column is UNIQUE
CpfsEntrada ==
    {<<>>} \cup {<<c>> : c \in CPFs}
           \cup {<<x[1], x[2]>> : x \in {y \in CPFs \X CPFs : y[1] # y[2]}}

InitLote ==
    /\ chamador = "lote"
    /\ con_aberta = TRUE
    /\ arquivos = {DB_PATH}
    /\ tabelas = FALSE
    /\ cadastros = <<>>
    /\ pedidos = <<>>
    /\ tamanho_lote \in 0..MaxLote
    /\ \/ pc = "gerar_cad" /\ cpfs = <<>>
       \/ pc = "gerar_ped" /\ cpfs \in CpfsEntrada
    /\ entropia = 0
    /\ Ocioso
    /\ execucoes = <<>>
    /\ fluxo = <<>>

NextLote ==
    \/ GerarCadastro
    \/ FecharChunkCad
    \/ RetornarCad
    \/ GerarPedido
    \/ FecharChunkPed
    \/ RetornarPed

SpecLote == InitLote /\ [][NextLote]_vars

\* ------------------------------------------------ two runs under one seed
\* Each run builds CadastrosDet customer records and then PedidosDet order
\* records with the record generators above.  random.seed(42) fixes the
\* stream of the `random` module, whatever it is: both runs read the same
\* fluxo.  fake = Faker('pt_BR') is never seeded and uuid.uuid4() reads OS
\* entropy: their draws are free in each run.
Execs == {1, 2}

\* the OS entropy a process can start with
Entropias == 0..MaxEntropia

Sementes ==
    [indice : 0..1, valor_total : Valores, tem_desconto : BOOLEAN, fator : Fatores]

InitDet ==
    /\ pc = "det"
    /\ chamador = "lote"
    /\ con_aberta = TRUE
    /\ arquivos = {DB_PATH}
    /\ tabelas = FALSE
    /\ cadastros = <<>>
    /\ pedidos = <<>>
    /\ cpfs = <<>>
    /\ tamanho_lote = 0
    /\ entropia = 0
    /\ Ocioso
    /\ fluxo \in [1..PedidosDet -> Sementes]
    /\ execucoes \in [Execs -> [entropia : Entropias, n_uuid : {0},
                                cadastros : {<<>>}, pedidos : {<<>>}]]

GerarCadastroDet ==
    /\ pc = "det"
    /\ \E r \in Execs, cpf \in CPFs :
          LET x == execucoes[r]
          IN /\ Len(x.cadastros) < CadastrosDet
             /\ execucoes' =
                   [execucoes EXCEPT ![r] =
                       [x EXCEPT !.cadastros =
                                    Append(@, registro_cadastro(uuid4(x.entropia, x.n_uuid), cpf)),
                                 !.n_uuid = @ + 1]]
    /\ UNCHANGED <<pc, chamador, erro, propagado, disco, banco, i, construtor, df,
                   cpfs, relatorio, estatisticas, entropia, n_uuid, sorteados, fluxo>>

GerarPedidoDet ==
    /\ pc = "det"
    /\ \E r \in Execs :
          LET x == execucoes[r]
              s == fluxo[Len(x.pedidos) + 1]
              lista == [j \in 1..Len(x.cadastros) |-> x.cadastros[j].cpf]
              n_id == IF s.tem_desconto THEN x.n_uuid + 1 ELSE x.n_uuid
          IN /\ Len(x.cadastros) = CadastrosDet
             /\ Len(x.pedidos) < PedidosDet
             /\ execucoes' =
                   [execucoes EXCEPT ![r] =
                       [x EXCEPT !.pedidos =
                                    Append(@, registro_pedido(
                                                 uuid4(x.entropia, n_id),
                                                 lista[(s.indice % Len(lista)) + 1],
                                                 s.valor_total, s.tem_desconto, s.fator,
                                                 uuid4(x.entropia, x.n_uuid))),
                                 !.n_uuid = n_id + 1]]
    /\ UNCHANGED <<pc, chamador, erro, propagado, disco, banco, i, construtor, df,
                   cpfs, relatorio, estatisticas, entropia, n_uuid, sorteados, fluxo>>

NextDet == GerarCadastroDet \/ GerarPedidoDet

SpecDet == InitDet /\ [][NextDet]_vars

\* ================================================================== claims
SemRepetidos(s) ==
    \A a, b \in 1..Len(s) :
        a # b => s[a].cpf # s[b].cpf /\ s[a].email # s[b].email

CpfsDe(s) == {s[j].cpf : j \in 1..Len(s)}

CupomCoerente(r) ==
    /\ r.cupom # None => r.valor_desconto > 0
    /\ r.cupom = None => r.valor_desconto = 0

\* C1: the batch gerar_lote_cadastros returns never holds two records with
\* the same cpf, nor two with the same email, whatever tax ids were drawn.
C1_LoteSemRepetidos ==
    pc \in {"retornou_cad", "inserir_cad"} => SemRepetidos(df)

\* a returned batch of a call that drew one tax id in two different chunks
C1_Witness ==
    /\ pc = "retornou_cad"
    /\ Len(df) >= 2
    /\ Len(chunks) >= 2
    /\ CpfsDe(chunks[1]) \cap CpfsDe(chunks[2]) # {}

\* C2: every row of pedidos, and every order record generated for loading,
\* carries a cpf present in cadastros.
C2_PedidosReferenciamCadastros ==
    /\ CpfsDe(pedidos) \subseteq CpfsDe(cadastros)
    /\ pc = "gerar_ped" /\ chamador = "main" =>
          CpfsDe(chunk_data) \cup CpfsDe(concat(chunks)) \subseteq CpfsDe(cadastros)
    /\ pc = "inserir_ped" => CpfsDe(df) \subseteq CpfsDe(cadastros)

\* orders loaded against several customers
C2_Witness ==
    /\ pc = "estatisticas"
    /\ Len(pedidos) >= 1
    /\ Len(cadastros) >= 2

\* C3: an order record has a positive discount when it has a coupon and a
\* zero discount when it has none.
C3_CupomDesconto ==
    /\ pc = "gerar_ped" =>
          \A r \in Range(chunk_data) \cup Range(concat(chunks)) : CupomCoerente(r)
    /\ pc \in {"retornou_ped", "inserir_ped"} => \A r \in Range(df) : CupomCoerente(r)

\* a returned order batch with a coupon record and a record without coupon
C3_Witness ==
    /\ pc = "retornou_ped"
    /\ \E r \in Range(df) : r.cupom # None
    /\ \E r \in Range(df) : r.cupom = None

\* C4: gerar_lote_cadastros(N) returns min(N, number of distinct tax ids among
\* the records it built) records, and never more than N.
C4_TamanhoDoLote ==
    pc = "retornou_cad" =>
        /\ Len(df) = Min(tamanho_lote, Cardinality(CpfsDe(gerados)))
        /\ Len(df) <= tamanho_lote

\* a request larger than a chunk and not a multiple of it, returned short
C4_Witness ==
    /\ pc = "retornou_cad"
    /\ tamanho_lote > chunk_size
    /\ tamanho_lote % chunk_size # 0
    /\ Len(df) > 0
    /\ Len(df) < tamanho_lote

\* C5 as stated: once the customer stage has finished, cadastros holds exactly
\* total_cadastros rows with pairwise distinct tax ids, whatever was drawn.
C5_ExatamenteTotal ==
    pc = "select_cpfs" =>
        Len(cadastros) = total_cadastros /\ SemRepetidos(cadastros)

\* C5 as amended: once the customer stage has finished, cadastros holds one row
\* per distinct tax id drawn during the stage (at most total_cadastros rows),
\* with pairwise distinct tax ids.
C5_UmaLinhaPorCpfSorteado ==
    pc = "select_cpfs" =>
        /\ Len(sorteados) = total_cadastros
        /\ Len(cadastros) = Cardinality(Range(sorteados))
        /\ Len(cadastros) <= total_cadastros
        /\ SemRepetidos(cadastros)

\* the stage finished after a tax id was drawn twice
C5_Witness ==
    /\ pc = "select_cpfs"
    /\ Len(cadastros) >= 2
    /\ Len(cadastros) < Len(sorteados)

\* C6: when main has exited, normally or with an exception, the connection is
\* closed and data.duckdb is gone, and an exception leaves main only after that.
C6_LimpezaNaSaida ==
    /\ pc = "fim" => ~con_aberta /\ DB_PATH \notin arquivos /\ propagado = erro
    /\ propagado # "nenhum" => ~con_aberta /\ DB_PATH \notin arquivos

\* main left by the exception raised while loading orders
C6_Witness ==
    /\ pc = "fim"
    /\ propagado = "insercao_pedidos"

\* C7: the number inserir_em_lote reports equals the number of rows the call
\* added to the table.
C7_RelatorioIgualAdicionados ==
    relatorio # <<>> => relatorio[1].inseridos = relatorio[1].adicionados

\* C8: a record generation that throws never makes the batch builder raise,
\* and the order builder returns every record it built.
C8_FalhaNaoAbortaLote ==
    /\ falhas > 0 => pc # "excecao" /\ erro = "nenhum"
    /\ pc = "retornou_ped" => df = gerados

\* the part of C8 that the code keeps: gerar_lote_pedidos skips the record
C8_PedidosPulamRegistro ==
    pc = "retornou_ped" => df = gerados /\ erro = "nenhum"

Concluida(r) ==
    /\ Len(execucoes[r].cadastros) = CadastrosDet
    /\ Len(execucoes[r].pedidos) = PedidosDet

\* C9: two runs under the same seed generate the same customer and order
\* records, field by field.
C9_ExecucoesIdenticas ==
    pc = "det" /\ Concluida(1) /\ Concluida(2) =>
        /\ execucoes[1].cadastros = execucoes[2].cadastros
        /\ execucoes[1].pedidos = execucoes[2].pedidos

\* what the seed does fix: the fields drawn from the `random` module alone
C9_CamposSemeadosIguais ==
    pc = "det" /\ Concluida(1) /\ Concluida(2) =>
        \A j \in 1..PedidosDet :
            /\ execucoes[1].pedidos[j].valor_pedido = execucoes[2].pedidos[j].valor_pedido
            /\ execucoes[1].pedidos[j].valor_desconto = execucoes[2].pedidos[j].valor_desconto

ErroDeInsercao == erro \in {"insercao_cadastros", "insercao_pedidos"}

\* C10: once the insert statement of inserir_em_lote has failed, main only
\* runs its cleanup: nothing more is generated or loaded, no statistics are
\* reported and nothing is exported.
C10_FalhaDeInsercaoParaAExecucao ==
    [][ErroDeInsercao =>
          /\ pc \in {"finally", "fim"}
          /\ pc' \in {"finally", "fim"}
          /\ erro' = erro
          /\ estatisticas' = estatisticas
          /\ relatorio' = relatorio
          /\ arquivos' \subseteq arquivos
          /\ Len(cadastros') <= Len(cadastros)
          /\ Len(pedidos') <= Len(pedidos)
          /\ UNCHANGED <<df, chunk_data, chunks, gerados, n_uuid>>]_vars

\* main left by the exception raised while loading customers, nothing
\* reported and nothing exported
C10_Witness ==
    /\ pc = "fim"
    /\ propagado = "insercao_cadastros"
    /\ estatisticas = <<>>
    /\ arquivos \cap CSVS = {}

====
